---- MODULE Spec2Model ----
(***************************************************************************)
(* Model of src/utils/models.py (class Models) and src/utils/view_model.py *)
(* (plot_training_metrics).                                                *)
(*                                                                         *)
(* Metric values (losses, F1 scores) are fixed-point integers in units of  *)
(* 1e-4, so 0.8123 is 8123.  A raised exception is the field "raised" of   *)
(* a call's result; "none" means the call returned.                        *)
(***************************************************************************)
EXTENDS Naturals, Integers, Sequences, FiniteSets, TLC

VARIABLES
    device,          \* self.device
    model_weights,   \* self.model_weights: Dict[str, float]
    cuda_available,  \* torch.cuda.is_available(), as the environment has it now
    loaded,          \* history: name -> best_val_f1 of its last successful load
    last             \* the call whose result the caller holds: operation, arguments, result

vars == <<device, model_weights, cuda_available, loaded, last>>

-----------------------------------------------------------------------------
(* Bounds of the model *)

MaxLen == 2       \* longest metric sequence of a checkpoint
MaxClasses == 2   \* num_classes ranges over 1..MaxClasses and the default

DefaultNumClasses == 8

ModelNames == {"netA", "netB"}
OutputDirs == {"src/data/images", "out"}
Classes == (1..MaxClasses) \cup {DefaultNumClasses}
Archs == {"efficientnet_b0", "efficientnet_b1", "mobilenet_v3_large",
          "shufflenet_v2_x2_0"}

LossValues == {3120, 4550}
TrainValues == {4550}
F1Values == {8123, 9046}
BestValues == {8127, 9046}

RECURSIVE SeqsUpTo(_, _)
SeqsUpTo(S, n) ==
    IF n = 0 THEN {<<>>}
    ELSE LET shorter == SeqsUpTo(S, n - 1)
         IN  shorter \cup {Append(s, v) : s \in {t \in shorter : Len(t) = n - 1}, v \in S}

-----------------------------------------------------------------------------
(* Python built-ins on lists *)

RECURSIVE py_max(_)
py_max(s) ==
    IF Len(s) = 1 THEN s[1]
    ELSE LET m == py_max(Tail(s)) IN IF m > s[1] THEN m ELSE s[1]

RECURSIVE py_min(_)
py_min(s) ==
    IF Len(s) = 1 THEN s[1]
    ELSE LET m == py_min(Tail(s)) IN IF m < s[1] THEN m ELSE s[1]

\* list.index(v): the 0-based position of the first element equal to v
py_index(s, v) == (CHOOSE i \in 1..Len(s) : s[i] = v /\ \A j \in 1..(i - 1) : s[j] # v) - 1

\* round(x, 3) on a value in units of 1e-4: nearest multiple of 10, ties to even
py_round3(v) ==
    LET q == v \div 10
        r == v % 10
    IN  IF r < 5 THEN 10 * q
        ELSE IF r > 5 THEN 10 * (q + 1)
        ELSE IF q % 2 = 0 THEN 10 * q ELSE 10 * (q + 1)

\* np.arange(1, n): the "+ 1" of the stop forgotten
np_arange1_short(n) == [i \in 1..(n - 1) |-> i]

\* np.arange(1, n + 1)
np_arange1(n) == [i \in 1..n |-> i]

-----------------------------------------------------------------------------
(* Checkpoint files *)

NoStateDict == [arch |-> "none", num_classes |-> 0]

NoFile ==
    [exists |-> FALSE, keys |-> {}, model_state_dict |-> NoStateDict,
     best_val_f1 |-> 0, val_loss |-> <<>>, train_loss |-> <<>>,
     f1_metric_val |-> <<>>]

PlotKeys == {"val_loss", "train_loss", "f1_metric_val"}
LoadKeys == {"model_state_dict", "best_val_f1"}

\* checkpoints offered to the prepare_finetuned_* operations
LoadFiles ==
    {NoFile} \cup
    {[exists |-> TRUE, keys |-> PlotKeys \cup ks,
      model_state_dict |-> IF "model_state_dict" \in ks
                           THEN [arch |-> a, num_classes |-> k] ELSE NoStateDict,
      best_val_f1 |-> IF "best_val_f1" \in ks THEN b ELSE 0,
      val_loss |-> <<4550, 3120>>, train_loss |-> <<4550, 3120>>,
      f1_metric_val |-> <<8123, 9046>>] :
        ks \in SUBSET LoadKeys, a \in Archs, k \in Classes, b \in BestValues}

\* checkpoints offered to the plotting routines
PlotFiles ==
    {NoFile} \cup
    {[exists |-> TRUE, keys |-> LoadKeys \cup ks,
      model_state_dict |-> [arch |-> "efficientnet_b0", num_classes |-> DefaultNumClasses],
      best_val_f1 |-> 9046,
      val_loss |-> IF "val_loss" \in ks THEN vl ELSE <<>>,
      train_loss |-> IF "train_loss" \in ks THEN tl ELSE <<>>,
      f1_metric_val |-> IF "f1_metric_val" \in ks THEN f1 ELSE <<>>] :
        ks \in SUBSET PlotKeys,
        vl \in SeqsUpTo(LossValues, MaxLen), tl \in SeqsUpTo(TrainValues, MaxLen),
        f1 \in SeqsUpTo(F1Values, MaxLen)}

-----------------------------------------------------------------------------
(* Paths *)

root_folder == "<root>"
download_folder == root_folder \o "/data/models"

CheckpointPath(model_name) == download_folder \o "/" \o model_name \o "_best_f1.pth"

\* the disk as a prepare_finetuned_* call finds it: one file may sit at the
\* path of model_name, every other path is absent
DiskWith(model_name, file) ==
    [p \in {"<root>/data/models/" \o n \o "_best_f1.pth" : n \in ModelNames} |->
        IF p = "<root>/data/models/" \o model_name \o "_best_f1.pth" THEN file ELSE NoFile]

\* torch.load(path): the file at that path, or FileNotFoundError
torch_load(disk, path) ==
    IF path \in DOMAIN disk /\ disk[path].exists
    THEN [raised |-> "none", checkpoint |-> disk[path]]
    ELSE [raised |-> "FileNotFoundError", checkpoint |-> NoFile]

-----------------------------------------------------------------------------
(* torch / torchvision *)

Linear(i, o) == [kind |-> "Linear", in_features |-> i, out_features |-> o]
Other(k) == [kind |-> k, in_features |-> 0, out_features |-> 0]
NoLayer == Other("absent")

\* a freshly instantiated torchvision model: training mode, on the CPU,
\* ImageNet head of 1000 classes
models_efficientnet_b0 ==
    [arch |-> "efficientnet_b0",
     classifier |-> [i \in 0..1 |-> IF i = 0 THEN Other("Dropout") ELSE Linear(1280, 1000)],
     fc |-> NoLayer, training |-> TRUE, device |-> "cpu", state |-> "DEFAULT"]

models_efficientnet_b1 ==
    [arch |-> "efficientnet_b1",
     classifier |-> [i \in 0..1 |-> IF i = 0 THEN Other("Dropout") ELSE Linear(1280, 1000)],
     fc |-> NoLayer, training |-> TRUE, device |-> "cpu", state |-> "IMAGENET1K_V2"]

models_mobilenet_v3_large ==
    [arch |-> "mobilenet_v3_large",
     classifier |-> [i \in 0..3 |-> CASE i = 0 -> Linear(960, 1280)
                                      [] i = 1 -> Other("Hardswish")
                                      [] i = 2 -> Other("Dropout")
                                      [] i = 3 -> Linear(1280, 1000)],
     fc |-> NoLayer, training |-> TRUE, device |-> "cpu", state |-> "IMAGENET1K_V2"]

models_shufflenet_v2_x2_0 ==
    [arch |-> "shufflenet_v2_x2_0",
     classifier |-> [i \in {} |-> NoLayer],
     fc |-> Linear(2048, 1000), training |-> TRUE, device |-> "cpu", state |-> "DEFAULT"]

NoModel ==
    [arch |-> "none", classifier |-> [i \in {} |-> NoLayer], fc |-> NoLayer,
     training |-> FALSE, device |-> "none", state |-> "none"]

\* the layer each constructor replaces, and the one it reads in_features from
FinalLayer(model) ==
    CASE model.arch \in {"efficientnet_b0", "efficientnet_b1"} -> model.classifier[1]
      [] model.arch = "mobilenet_v3_large" -> model.classifier[3]
      [] model.arch = "shufflenet_v2_x2_0" -> model.fc
      [] OTHER -> NoLayer

\* model.load_state_dict(sd), strict: the keys are those of the architecture
\* and every tensor has the shape of the model's parameter
load_state_dict(model, sd) ==
    IF sd.arch = model.arch /\ sd.num_classes = FinalLayer(model).out_features
    THEN [raised |-> "none", model |-> [model EXCEPT !.state = "model_state_dict"]]
    ELSE [raised |-> "RuntimeError", model |-> model]

\* the call to model.eval() left out
model_eval_noop(model) == model

\* model.eval()
model_eval(model) == [model EXCEPT !.training = FALSE]

\* the device looked up again at the time of the call
model_to_current(model, dev) ==
    [model EXCEPT !.device = IF cuda_available THEN "cuda" ELSE "cpu"]

\* model.to(device)
model_to(model, dev) == [model EXCEPT !.device = dev]

\* checkpoint.get(key, []): a missing key reads as an empty list
HasKey_default(checkpoint, key) == TRUE

\* checkpoint[key]
HasKey(checkpoint, key) == key \in checkpoint.keys

-----------------------------------------------------------------------------
(* class Models *)

\* the object after __init__: the device is read from the environment once
Models_init(cuda) ==
    [device |-> IF cuda THEN "cuda" ELSE "cpu",
     model_weights |-> [n \in {} |-> 0]]

\* an exception leaves the function: no model, self as it is at that point
Raise(exc, self) == [raised |-> exc, model |-> NoModel, self |-> self]

\* mkdir(exist_ok=True) and the download; nothing of self is assigned
download_from_kaggle(self) == [raised |-> "none", model |-> NoModel, self |-> self]

create_new_efficientnet_b0(self, num_classes) ==
    LET model == models_efficientnet_b0
        model1 == [model EXCEPT !.classifier[1] = Linear(model.classifier[1].in_features, num_classes)]
    IN  [raised |-> "none", model |-> model_to(model1, self.device), self |-> self]

create_new_efficientnet_b1(self, num_classes) ==
    LET model == models_efficientnet_b1
        model1 == [model EXCEPT !.classifier[1] = Linear(model.classifier[1].in_features, num_classes)]
    IN  [raised |-> "none", model |-> model_to(model1, self.device), self |-> self]

\* in_features read from classifier[0] instead of classifier[3]
create_new_mobilenet_v3_large_first(self, num_classes) ==
    LET model == models_mobilenet_v3_large
        model1 == [model EXCEPT !.classifier[3] = Linear(model.classifier[0].in_features, num_classes)]
    IN  [raised |-> "none", model |-> model_to(model1, self.device), self |-> self]

create_new_mobilenet_v3_large(self, num_classes) ==
    LET model == models_mobilenet_v3_large
        model1 == [model EXCEPT !.classifier[3] = Linear(model.classifier[3].in_features, num_classes)]
    IN  [raised |-> "none", model |-> model_to(model1, self.device), self |-> self]

create_new_shufflenet_v2_x2_0(self, num_classes) ==
    LET model == models_shufflenet_v2_x2_0
        model1 == [model EXCEPT !.fc = Linear(model.fc.in_features, num_classes)]
    IN  [raised |-> "none", model |-> model_to(model1, self.device), self |-> self]

\* the registry given the rounded value
prepare_finetuned_efficientnet_b0_rounded(self, disk, model_name, num_classes) ==
    LET model == models_efficientnet_b0
        model1 == [model EXCEPT !.classifier[1] = Linear(model.classifier[1].in_features, num_classes)]
        ld == torch_load(disk, CheckpointPath(model_name))
        checkpoint == ld.checkpoint
        lsd == load_state_dict(model1, checkpoint.model_state_dict)
        model2 == model_eval(lsd.model)
        self1 == [self EXCEPT !.model_weights =
                     [n \in DOMAIN self.model_weights \cup {model_name} |->
                         IF n = model_name THEN py_round3(checkpoint.best_val_f1)
                         ELSE self.model_weights[n]]]
    IN  IF ld.raised # "none" THEN Raise(ld.raised, self)
        ELSE IF ~HasKey(checkpoint, "model_state_dict") THEN Raise("KeyError", self)
        ELSE IF lsd.raised # "none" THEN Raise(lsd.raised, self)
        ELSE IF ~HasKey(checkpoint, "best_val_f1") THEN Raise("KeyError", self)
        ELSE [raised |-> "none", model |-> model_to(model2, self1.device), self |-> self1]

prepare_finetuned_efficientnet_b0(self, disk, model_name, num_classes) ==
    LET model == models_efficientnet_b0
        model1 == [model EXCEPT !.classifier[1] = Linear(model.classifier[1].in_features, num_classes)]
        ld == torch_load(disk, CheckpointPath(model_name))
        checkpoint == ld.checkpoint
        lsd == load_state_dict(model1, checkpoint.model_state_dict)
        model2 == model_eval(lsd.model)
        self1 == [self EXCEPT !.model_weights =
                     [n \in DOMAIN self.model_weights \cup {model_name} |->
                         IF n = model_name THEN checkpoint.best_val_f1
                         ELSE self.model_weights[n]]]
    IN  IF ld.raised # "none" THEN Raise(ld.raised, self)
        ELSE IF ~HasKey(checkpoint, "model_state_dict") THEN Raise("KeyError", self)
        ELSE IF lsd.raised # "none" THEN Raise(lsd.raised, self)
        ELSE IF ~HasKey(checkpoint, "best_val_f1") THEN Raise("KeyError", self)
        ELSE [raised |-> "none", model |-> model_to(model2, self1.device), self |-> self1]

\* the registry assigned before load_state_dict
prepare_finetuned_efficientnet_b1_early(self, disk, model_name, num_classes) ==
    LET model == models_efficientnet_b1
        model1 == [model EXCEPT !.classifier[1] = Linear(model.classifier[1].in_features, num_classes)]
        ld == torch_load(disk, CheckpointPath(model_name))
        checkpoint == ld.checkpoint
        lsd == load_state_dict(model1, checkpoint.model_state_dict)
        model2 == model_eval(lsd.model)
        self1 == [self EXCEPT !.model_weights =
                     [n \in DOMAIN self.model_weights \cup {model_name} |->
                         IF n = model_name THEN checkpoint.best_val_f1
                         ELSE self.model_weights[n]]]
    IN  IF ld.raised # "none" THEN Raise(ld.raised, self)
        ELSE IF ~HasKey(checkpoint, "model_state_dict") THEN Raise("KeyError", self)
        ELSE IF ~HasKey(checkpoint, "best_val_f1") THEN Raise("KeyError", self)
        ELSE IF lsd.raised # "none" THEN Raise(lsd.raised, self1)
        ELSE [raised |-> "none", model |-> model_to(model2, self1.device), self |-> self1]

prepare_finetuned_efficientnet_b1(self, disk, model_name, num_classes) ==
    LET model == models_efficientnet_b1
        model1 == [model EXCEPT !.classifier[1] = Linear(model.classifier[1].in_features, num_classes)]
        ld == torch_load(disk, CheckpointPath(model_name))
        checkpoint == ld.checkpoint
        lsd == load_state_dict(model1, checkpoint.model_state_dict)
        model2 == model_eval(lsd.model)
        self1 == [self EXCEPT !.model_weights =
                     [n \in DOMAIN self.model_weights \cup {model_name} |->
                         IF n = model_name THEN checkpoint.best_val_f1
                         ELSE self.model_weights[n]]]
    IN  IF ld.raised # "none" THEN Raise(ld.raised, self)
        ELSE IF ~HasKey(checkpoint, "model_state_dict") THEN Raise("KeyError", self)
        ELSE IF lsd.raised # "none" THEN Raise(lsd.raised, self)
        ELSE IF ~HasKey(checkpoint, "best_val_f1") THEN Raise("KeyError", self)
        ELSE [raised |-> "none", model |-> model_to(model2, self1.device), self |-> self1]

\* model_weights.setdefault(model_name, ...): an entry is never overwritten
prepare_finetuned_mobilenet_v3_large_setdefault(self, disk, model_name, num_classes) ==
    LET model == models_mobilenet_v3_large
        model1 == [model EXCEPT !.classifier[3] = Linear(model.classifier[3].in_features, num_classes)]
        ld == torch_load(disk, CheckpointPath(model_name))
        checkpoint == ld.checkpoint
        lsd == load_state_dict(model1, checkpoint.model_state_dict)
        model2 == model_eval(lsd.model)
        self1 == [self EXCEPT !.model_weights =
                     [n \in DOMAIN self.model_weights \cup {model_name} |->
                         IF n = model_name /\ n \notin DOMAIN self.model_weights
                         THEN checkpoint.best_val_f1
                         ELSE self.model_weights[n]]]
    IN  IF ld.raised # "none" THEN Raise(ld.raised, self)
        ELSE IF ~HasKey(checkpoint, "model_state_dict") THEN Raise("KeyError", self)
        ELSE IF lsd.raised # "none" THEN Raise(lsd.raised, self)
        ELSE IF ~HasKey(checkpoint, "best_val_f1") THEN Raise("KeyError", self)
        ELSE [raised |-> "none", model |-> model_to(model2, self1.device), self |-> self1]

prepare_finetuned_mobilenet_v3_large(self, disk, model_name, num_classes) ==
    LET model == models_mobilenet_v3_large
        model1 == [model EXCEPT !.classifier[3] = Linear(model.classifier[3].in_features, num_classes)]
        ld == torch_load(disk, CheckpointPath(model_name))
        checkpoint == ld.checkpoint
        lsd == load_state_dict(model1, checkpoint.model_state_dict)
        model2 == model_eval(lsd.model)
        self1 == [self EXCEPT !.model_weights =
                     [n \in DOMAIN self.model_weights \cup {model_name} |->
                         IF n = model_name THEN checkpoint.best_val_f1
                         ELSE self.model_weights[n]]]
    IN  IF ld.raised # "none" THEN Raise(ld.raised, self)
        ELSE IF ~HasKey(checkpoint, "model_state_dict") THEN Raise("KeyError", self)
        ELSE IF lsd.raised # "none" THEN Raise(lsd.raised, self)
        ELSE IF ~HasKey(checkpoint, "best_val_f1") THEN Raise("KeyError", self)
        ELSE [raised |-> "none", model |-> model_to(model2, self1.device), self |-> self1]

prepare_finetuned_shufflenet_v2_x2_0(self, disk, model_name, num_classes) ==
    LET model == models_shufflenet_v2_x2_0
        model1 == [model EXCEPT !.fc = Linear(model.fc.in_features, num_classes)]
        ld == torch_load(disk, CheckpointPath(model_name))
        checkpoint == ld.checkpoint
        lsd == load_state_dict(model1, checkpoint.model_state_dict)
        model2 == model_eval(lsd.model)
        self1 == [self EXCEPT !.model_weights =
                     [n \in DOMAIN self.model_weights \cup {model_name} |->
                         IF n = model_name THEN checkpoint.best_val_f1
                         ELSE self.model_weights[n]]]
    IN  IF ld.raised # "none" THEN Raise(ld.raised, self)
        ELSE IF ~HasKey(checkpoint, "model_state_dict") THEN Raise("KeyError", self)
        ELSE IF lsd.raised # "none" THEN Raise(lsd.raised, self)
        ELSE IF ~HasKey(checkpoint, "best_val_f1") THEN Raise("KeyError", self)
        ELSE [raised |-> "none", model |-> model_to(model2, self1.device), self |-> self1]

-----------------------------------------------------------------------------
(* matplotlib *)

NoAnnotation == [axis |-> "none", text_epoch |-> 0, text_value |-> 0,
                 xy |-> <<0, 0>>, xytext |-> <<0, 0>>]

NoPlot == [lines |-> <<>>, annotation |-> NoAnnotation, ymax_e7 |-> 0,
           title_epochs |-> 0, writes |-> <<>>]

\* ax.plot(x, y, markevery=...): x and y must have the same first dimension
ax_plot(axis, x, y, markevery) ==
    IF Len(x) # Len(y)
    THEN [raised |-> "ValueError", line |-> <<>>]
    ELSE [raised |-> "none",
          line |-> <<[axis |-> axis, x |-> x, y |-> y, markevery |-> markevery]>>]

\* plt.savefig(path): draws the figure and writes the file; a markevery index
\* outside its line is rejected at draw time
plt_savefig(lines, path) ==
    IF \E i \in 1..Len(lines) : \E k \in lines[i].markevery : k >= Len(lines[i].y)
    THEN [raised |-> "ValueError", writes |-> <<>>]
    ELSE [raised |-> "none", writes |-> <<path>>]

PlotRaise(exc) == [raised |-> exc, plot |-> NoPlot]

\* the disk as a plotting call finds it
DiskAt(path, file) == [p \in {path} |-> file]

PlotPath == "checkpoints/run_best_f1.pth"

-----------------------------------------------------------------------------
(* Models.plot_training_metrics *)

Models_plot_training_metrics(self, disk, checkpoint_path, name_of_the_net) ==
    LET ld == torch_load(disk, checkpoint_path)
        checkpoint == ld.checkpoint
        losses_val == checkpoint.val_loss
        losses_train == checkpoint.train_loss
        f1_metric_val == checkpoint.f1_metric_val
        p1 == ax_plot("ax1", np_arange1(Len(losses_train)), losses_train, {})
        p2 == ax_plot("ax1", np_arange1(Len(losses_val)), losses_val, {})
        best == py_index(f1_metric_val, py_max(f1_metric_val))
        marker_on == {best}
        p3 == ax_plot("ax2", np_arange1(Len(f1_metric_val)), f1_metric_val, marker_on)
        annotation ==
            [axis |-> "ax2",
             text_epoch |-> py_index(f1_metric_val, py_max(f1_metric_val)) + 1,
             text_value |-> py_round3(py_max(f1_metric_val)),
             xy |-> <<py_index(f1_metric_val, py_max(f1_metric_val)) + 1,
                      py_max(f1_metric_val)>>,
             xytext |-> <<py_index(f1_metric_val, py_max(f1_metric_val)) + 1,
                          py_max(f1_metric_val) - 150>>]
        lines == p1.line \o p2.line \o p3.line
        sv == plt_savefig(lines, root_folder \o "/data/images/" \o name_of_the_net \o ".png")
    IN  IF ld.raised # "none" THEN PlotRaise(ld.raised)
        ELSE IF ~HasKey(checkpoint, "val_loss") THEN PlotRaise("KeyError")
        ELSE IF ~HasKey(checkpoint, "train_loss") THEN PlotRaise("KeyError")
        ELSE IF ~HasKey(checkpoint, "f1_metric_val") THEN PlotRaise("KeyError")
        ELSE IF p1.raised # "none" THEN PlotRaise(p1.raised)
        ELSE IF p2.raised # "none" THEN PlotRaise(p2.raised)
        ELSE IF Len(f1_metric_val) = 0 THEN PlotRaise("ValueError")
        ELSE IF p3.raised # "none" THEN PlotRaise(p3.raised)
        ELSE IF sv.raised # "none" THEN PlotRaise(sv.raised)
        ELSE [raised |-> "none",
              plot |-> [lines |-> lines, annotation |-> annotation,
                        ymax_e7 |-> py_max(f1_metric_val) * 1015,
                        title_epochs |-> Len(losses_train), writes |-> sv.writes]]

-----------------------------------------------------------------------------
(* view_model.plot_training_metrics *)

\* the F1 line drawn over the epochs of the training loss
view_plot_training_metrics_shared_x(disk, checkpoint_path, net_name, output_dir) ==
    LET ld == torch_load(disk, checkpoint_path)
        checkpoint == ld.checkpoint
        losses_val == checkpoint.val_loss
        losses_train == checkpoint.train_loss
        f1_metric_val == checkpoint.f1_metric_val
        marker_on == {py_index(losses_val, py_min(losses_val))}
        p1 == ax_plot("ax1", np_arange1(Len(losses_train)), losses_train, {})
        p2 == ax_plot("ax1", np_arange1(Len(losses_val)), losses_val, marker_on)
        annotation ==
            [axis |-> "ax1",
             text_epoch |-> py_index(f1_metric_val, py_max(f1_metric_val)) + 1,
             text_value |-> py_max(f1_metric_val),
             xy |-> <<py_index(losses_val, py_min(losses_val)) + 1, py_min(losses_val)>>,
             xytext |-> <<py_index(losses_val, py_min(losses_val)) + 1,
                          py_min(losses_val) + 500>>]
        p3 == ax_plot("ax2", np_arange1(Len(losses_train)), f1_metric_val, {})
        lines == p1.line \o p2.line \o p3.line
        output_path == output_dir \o "/" \o net_name \o ".png"
        sv == plt_savefig(lines, output_path)
    IN  IF ld.raised # "none" THEN PlotRaise(ld.raised)
        ELSE IF ~HasKey(checkpoint, "val_loss") THEN PlotRaise("KeyError")
        ELSE IF ~HasKey(checkpoint, "train_loss") THEN PlotRaise("KeyError")
        ELSE IF ~HasKey(checkpoint, "f1_metric_val") THEN PlotRaise("KeyError")
        ELSE IF Len(losses_val) = 0 THEN PlotRaise("ValueError")
        ELSE IF p1.raised # "none" THEN PlotRaise(p1.raised)
        ELSE IF p2.raised # "none" THEN PlotRaise(p2.raised)
        ELSE IF Len(f1_metric_val) = 0 THEN PlotRaise("ValueError")
        ELSE IF p3.raised # "none" THEN PlotRaise(p3.raised)
        ELSE IF sv.raised # "none" THEN PlotRaise(sv.raised)
        ELSE [raised |-> "none",
              plot |-> [lines |-> lines, annotation |-> annotation, ymax_e7 |-> 0,
                        title_epochs |-> Len(losses_train), writes |-> sv.writes]]

view_plot_training_metrics(disk, checkpoint_path, net_name, output_dir) ==
    LET ld == torch_load(disk, checkpoint_path)
        checkpoint == ld.checkpoint
        losses_val == checkpoint.val_loss
        losses_train == checkpoint.train_loss
        f1_metric_val == checkpoint.f1_metric_val
        marker_on == {py_index(losses_val, py_min(losses_val))}
        p1 == ax_plot("ax1", np_arange1(Len(losses_train)), losses_train, {})
        p2 == ax_plot("ax1", np_arange1(Len(losses_val)), losses_val, marker_on)
        annotation ==
            [axis |-> "ax1",
             text_epoch |-> py_index(f1_metric_val, py_max(f1_metric_val)) + 1,
             text_value |-> py_max(f1_metric_val),
             xy |-> <<py_index(losses_val, py_min(losses_val)) + 1, py_min(losses_val)>>,
             xytext |-> <<py_index(losses_val, py_min(losses_val)) + 1,
                          py_min(losses_val) + 500>>]
        p3 == ax_plot("ax2", np_arange1(Len(f1_metric_val)), f1_metric_val, {})
        lines == p1.line \o p2.line \o p3.line
        output_path == output_dir \o "/" \o net_name \o ".png"
        sv == plt_savefig(lines, output_path)
    IN  IF ld.raised # "none" THEN PlotRaise(ld.raised)
        ELSE IF ~HasKey(checkpoint, "val_loss") THEN PlotRaise("KeyError")
        ELSE IF ~HasKey(checkpoint, "train_loss") THEN PlotRaise("KeyError")
        ELSE IF ~HasKey(checkpoint, "f1_metric_val") THEN PlotRaise("KeyError")
        ELSE IF Len(losses_val) = 0 THEN PlotRaise("ValueError")
        ELSE IF p1.raised # "none" THEN PlotRaise(p1.raised)
        ELSE IF p2.raised # "none" THEN PlotRaise(p2.raised)
        ELSE IF Len(f1_metric_val) = 0 THEN PlotRaise("ValueError")
        ELSE IF p3.raised # "none" THEN PlotRaise(p3.raised)
        ELSE IF sv.raised # "none" THEN PlotRaise(sv.raised)
        ELSE [raised |-> "none",
              plot |-> [lines |-> lines, annotation |-> annotation, ymax_e7 |-> 0,
                        title_epochs |-> Len(losses_train), writes |-> sv.writes]]

-----------------------------------------------------------------------------
(* The state machine: one Models object and its caller *)

Self == [device |-> device, model_weights |-> model_weights]

CreateOps == {"create_new_efficientnet_b0", "create_new_efficientnet_b1",
              "create_new_mobilenet_v3_large", "create_new_shufflenet_v2_x2_0"}
PrepareOps == {"prepare_finetuned_efficientnet_b0", "prepare_finetuned_efficientnet_b1",
               "prepare_finetuned_mobilenet_v3_large",
               "prepare_finetuned_shufflenet_v2_x2_0"}
PlotOps == {"Models.plot_training_metrics", "view_model.plot_training_metrics"}

NoCall ==
    [op |-> "none", model_name |-> "", num_classes |-> 0, file |-> NoFile,
     output_dir |-> "", raised |-> "none", model |-> NoModel, plot |-> NoPlot]

Init ==
    /\ cuda_available \in BOOLEAN
    /\ device = Models_init(cuda_available).device
    /\ model_weights = Models_init(cuda_available).model_weights
    /\ loaded = [n \in {} |-> 0]
    /\ last = NoCall

\* the caller holds no result and may make its next call
Idle == last = NoCall

\* the caller takes the result of the call it made
Return ==
    /\ ~Idle
    /\ last' = NoCall
    /\ UNCHANGED <<device, model_weights, cuda_available, loaded>>

\* an accelerator becomes available after the object was constructed (the
\* loss of one in use ends the process and is not a step of this machine)
AcceleratorAppears ==
    /\ ~cuda_available
    /\ cuda_available' = TRUE
    /\ UNCHANGED <<device, model_weights, loaded, last>>

DownloadFromKaggle ==
    LET r == download_from_kaggle(Self)
    IN  /\ Idle
        /\ device' = r.self.device
        /\ model_weights' = r.self.model_weights
        /\ last' = [NoCall EXCEPT !.op = "download_from_kaggle", !.raised = r.raised]
        /\ UNCHANGED <<cuda_available, loaded>>

CreateNewEfficientnetB0 ==
    /\ Idle
    /\ \E num_classes \in Classes :
        LET r == create_new_efficientnet_b0(Self, num_classes)
        IN  /\ device' = r.self.device
            /\ model_weights' = r.self.model_weights
            /\ last' = [NoCall EXCEPT !.op = "create_new_efficientnet_b0",
                                      !.num_classes = num_classes,
                                      !.raised = r.raised, !.model = r.model]
            /\ UNCHANGED <<cuda_available, loaded>>

CreateNewEfficientnetB1 ==
    /\ Idle
    /\ \E num_classes \in Classes :
        LET r == create_new_efficientnet_b1(Self, num_classes)
        IN  /\ device' = r.self.device
            /\ model_weights' = r.self.model_weights
            /\ last' = [NoCall EXCEPT !.op = "create_new_efficientnet_b1",
                                      !.num_classes = num_classes,
                                      !.raised = r.raised, !.model = r.model]
            /\ UNCHANGED <<cuda_available, loaded>>

CreateNewMobilenetV3Large ==
    /\ Idle
    /\ \E num_classes \in Classes :
        LET r == create_new_mobilenet_v3_large(Self, num_classes)
        IN  /\ device' = r.self.device
            /\ model_weights' = r.self.model_weights
            /\ last' = [NoCall EXCEPT !.op = "create_new_mobilenet_v3_large",
                                      !.num_classes = num_classes,
                                      !.raised = r.raised, !.model = r.model]
            /\ UNCHANGED <<cuda_available, loaded>>

CreateNewShufflenetV2X20 ==
    /\ Idle
    /\ \E num_classes \in Classes :
        LET r == create_new_shufflenet_v2_x2_0(Self, num_classes)
        IN  /\ device' = r.self.device
            /\ model_weights' = r.self.model_weights
            /\ last' = [NoCall EXCEPT !.op = "create_new_shufflenet_v2_x2_0",
                                      !.num_classes = num_classes,
                                      !.raised = r.raised, !.model = r.model]
            /\ UNCHANGED <<cuda_available, loaded>>

PrepareFinetunedEfficientnetB0 ==
    /\ Idle
    /\ \E model_name \in ModelNames, num_classes \in Classes, file \in LoadFiles :
        LET r == prepare_finetuned_efficientnet_b0(Self, DiskWith(model_name, file),
                                        model_name, num_classes)
        IN  /\ device' = r.self.device
            /\ model_weights' = r.self.model_weights
            /\ loaded' = IF r.raised = "none"
                         THEN [n \in DOMAIN loaded \cup {model_name} |->
                                  IF n = model_name THEN file.best_val_f1 ELSE loaded[n]]
                         ELSE loaded
            /\ last' = [NoCall EXCEPT !.op = "prepare_finetuned_efficientnet_b0",
                                      !.model_name = model_name,
                                      !.num_classes = num_classes, !.file = file,
                                      !.raised = r.raised, !.model = r.model]
            /\ UNCHANGED <<cuda_available>>

PrepareFinetunedEfficientnetB1 ==
    /\ Idle
    /\ \E model_name \in ModelNames, num_classes \in Classes, file \in LoadFiles :
        LET r == prepare_finetuned_efficientnet_b1(Self, DiskWith(model_name, file),
                                        model_name, num_classes)
        IN  /\ device' = r.self.device
            /\ model_weights' = r.self.model_weights
            /\ loaded' = IF r.raised = "none"
                         THEN [n \in DOMAIN loaded \cup {model_name} |->
                                  IF n = model_name THEN file.best_val_f1 ELSE loaded[n]]
                         ELSE loaded
            /\ last' = [NoCall EXCEPT !.op = "prepare_finetuned_efficientnet_b1",
                                      !.model_name = model_name,
                                      !.num_classes = num_classes, !.file = file,
                                      !.raised = r.raised, !.model = r.model]
            /\ UNCHANGED <<cuda_available>>

PrepareFinetunedMobilenetV3Large ==
    /\ Idle
    /\ \E model_name \in ModelNames, num_classes \in Classes, file \in LoadFiles :
        LET r == prepare_finetuned_mobilenet_v3_large(Self, DiskWith(model_name, file),
                                        model_name, num_classes)
        IN  /\ device' = r.self.device
            /\ model_weights' = r.self.model_weights
            /\ loaded' = IF r.raised = "none"
                         THEN [n \in DOMAIN loaded \cup {model_name} |->
                                  IF n = model_name THEN file.best_val_f1 ELSE loaded[n]]
                         ELSE loaded
            /\ last' = [NoCall EXCEPT !.op = "prepare_finetuned_mobilenet_v3_large",
                                      !.model_name = model_name,
                                      !.num_classes = num_classes, !.file = file,
                                      !.raised = r.raised, !.model = r.model]
            /\ UNCHANGED <<cuda_available>>

PrepareFinetunedShufflenetV2X20 ==
    /\ Idle
    /\ \E model_name \in ModelNames, num_classes \in Classes, file \in LoadFiles :
        LET r == prepare_finetuned_shufflenet_v2_x2_0(Self, DiskWith(model_name, file),
                                        model_name, num_classes)
        IN  /\ device' = r.self.device
            /\ model_weights' = r.self.model_weights
            /\ loaded' = IF r.raised = "none"
                         THEN [n \in DOMAIN loaded \cup {model_name} |->
                                  IF n = model_name THEN file.best_val_f1 ELSE loaded[n]]
                         ELSE loaded
            /\ last' = [NoCall EXCEPT !.op = "prepare_finetuned_shufflenet_v2_x2_0",
                                      !.model_name = model_name,
                                      !.num_classes = num_classes, !.file = file,
                                      !.raised = r.raised, !.model = r.model]
            /\ UNCHANGED <<cuda_available>>

ModelsPlotTrainingMetrics ==
    /\ Idle
    /\ \E name_of_the_net \in ModelNames, file \in PlotFiles :
        LET r == Models_plot_training_metrics(Self, DiskAt(PlotPath, file), PlotPath,
                                              name_of_the_net)
        IN  /\ last' = [NoCall EXCEPT !.op = "Models.plot_training_metrics",
                                      !.model_name = name_of_the_net, !.file = file,
                                      !.raised = r.raised, !.plot = r.plot]
            /\ UNCHANGED <<device, model_weights, cuda_available, loaded>>

ViewPlotTrainingMetrics ==
    /\ Idle
    /\ \E net_name \in ModelNames, output_dir \in OutputDirs, file \in PlotFiles :
        LET r == view_plot_training_metrics(DiskAt(PlotPath, file), PlotPath, net_name,
                                            output_dir)
        IN  /\ last' = [NoCall EXCEPT !.op = "view_model.plot_training_metrics",
                                      !.model_name = net_name, !.file = file,
                                      !.output_dir = output_dir,
                                      !.raised = r.raised, !.plot = r.plot]
            /\ UNCHANGED <<device, model_weights, cuda_available, loaded>>

Next ==
    \/ AcceleratorAppears
    \/ DownloadFromKaggle
    \/ CreateNewEfficientnetB0
    \/ CreateNewEfficientnetB1
    \/ CreateNewMobilenetV3Large
    \/ CreateNewShufflenetV2X20
    \/ PrepareFinetunedEfficientnetB0
    \/ PrepareFinetunedEfficientnetB1
    \/ PrepareFinetunedMobilenetV3Large
    \/ PrepareFinetunedShufflenetV2X20
    \/ ModelsPlotTrainingMetrics
    \/ ViewPlotTrainingMetrics
    \/ Return

Spec == Init /\ [][Next]_vars

-----------------------------------------------------------------------------
(* Properties *)

Returned == last.raised = "none"
Constructed == last.op \in CreateOps \cup PrepareOps /\ Returned
Plotted == last.op \in PlotOps /\ Returned

N_val == Len(last.file.val_loss)
N_train == Len(last.file.train_loss)
N_f1 == Len(last.file.f1_metric_val)

\* the call read a checkpoint holding the three metric sequences
PlotCallWithKeys ==
    last.op \in PlotOps /\ last.file.exists /\ PlotKeys \subseteq last.file.keys

\* the epoch (1-based) at which s first attains its maximum
FirstMaxEpoch(s) ==
    CHOOSE e \in 1..Len(s) :
        /\ \A j \in 1..Len(s) : s[j] <= s[e]
        /\ \A j \in 1..(e - 1) : s[j] < s[e]

\* where each routine is to save its image
ExpectedImage ==
    IF last.op = "Models.plot_training_metrics"
    THEN "<root>/data/images/" \o last.model_name \o ".png"
    ELSE last.output_dir \o "/" \o last.model_name \o ".png"

\* the head of a returned model, per architecture, and the layer it replaced
ReturnedHead ==
    CASE last.model.arch \in {"efficientnet_b0", "efficientnet_b1"} -> last.model.classifier[1]
      [] last.model.arch = "mobilenet_v3_large" -> last.model.classifier[3]
      [] last.model.arch = "shufflenet_v2_x2_0" -> last.model.fc

ReplacedInFeatures ==
    CASE last.op \in {"create_new_efficientnet_b0", "prepare_finetuned_efficientnet_b0"}
            -> models_efficientnet_b0.classifier[1].in_features
      [] last.op \in {"create_new_efficientnet_b1", "prepare_finetuned_efficientnet_b1"}
            -> models_efficientnet_b1.classifier[1].in_features
      [] last.op \in {"create_new_mobilenet_v3_large", "prepare_finetuned_mobilenet_v3_large"}
            -> models_mobilenet_v3_large.classifier[3].in_features
      [] last.op \in {"create_new_shufflenet_v2_x2_0", "prepare_finetuned_shufflenet_v2_x2_0"}
            -> models_shufflenet_v2_x2_0.fc.in_features

ArchOfOp ==
    CASE last.op \in {"create_new_efficientnet_b0", "prepare_finetuned_efficientnet_b0"}
            -> "efficientnet_b0"
      [] last.op \in {"create_new_efficientnet_b1", "prepare_finetuned_efficientnet_b1"}
            -> "efficientnet_b1"
      [] last.op \in {"create_new_mobilenet_v3_large", "prepare_finetuned_mobilenet_v3_large"}
            -> "mobilenet_v3_large"
      [] last.op \in {"create_new_shufflenet_v2_x2_0", "prepare_finetuned_shufflenet_v2_x2_0"}
            -> "shufflenet_v2_x2_0"

\* C1: after a prepare_finetuned_* call that returned, the registry entry of
\* its model name is the best_val_f1 of the checkpoint at
\* <download_folder>/<model_name>_best_f1.pth, as stored: not rounded, not the
\* maximum of f1_metric_val.
C1_RegistryHoldsBestValF1 ==
    (last.op \in PrepareOps /\ Returned) =>
        /\ last.model_name \in DOMAIN model_weights
        /\ model_weights[last.model_name] = last.file.best_val_f1

\* C1 witness: a load returned whose best_val_f1 differs from its rounding and
\* from the maximum of its f1_metric_val
C1_Witness ==
    /\ last.op \in PrepareOps /\ Returned
    /\ last.file.best_val_f1 # py_round3(last.file.best_val_f1)
    /\ last.file.best_val_f1 # py_max(last.file.f1_metric_val)
    /\ model_weights[last.model_name] = last.file.best_val_f1

\* C2: the final layer of every returned model has num_classes outputs and the
\* in_features of the layer it replaced.
C2_HeadHasKOutputs ==
    Constructed =>
        /\ last.model.arch = ArchOfOp
        /\ ReturnedHead.kind = "Linear"
        /\ ReturnedHead.out_features = last.num_classes
        /\ ReturnedHead.in_features = ReplacedInFeatures

\* C2 witness: a fine-tuned mobilenet_v3_large returned with the default class count
C2_Witness ==
    /\ last.op = "prepare_finetuned_mobilenet_v3_large" /\ Returned
    /\ last.num_classes = DefaultNumClasses
    /\ last.model.classifier[3] = Linear(1280, DefaultNumClasses)

\* C3 (as claimed): in both plotting routines the annotation is anchored at
\* the first epoch of maximum F1, and its text names that same epoch.
C3_AnnotationAtBestF1Epoch ==
    Plotted =>
        /\ last.plot.annotation.xy[1] = FirstMaxEpoch(last.file.f1_metric_val)
        /\ last.plot.annotation.text_epoch = FirstMaxEpoch(last.file.f1_metric_val)

\* C4: with three sequences of one length N >= 1, each routine returns and
\* writes exactly one image, at its expected path.
C4_EqualLengthsPlot ==
    (PlotCallWithKeys /\ N_val >= 1 /\ N_val = N_train /\ N_val = N_f1) =>
        /\ Returned
        /\ last.plot.writes = <<ExpectedImage>>

\* C4 witness: Models.plot_training_metrics has plotted a single-epoch checkpoint
C4_Witness ==
    /\ PlotCallWithKeys /\ N_val = 1 /\ N_train = 1 /\ N_f1 = 1
    /\ Returned /\ last.plot.writes = <<ExpectedImage>>
    /\ last.op = "Models.plot_training_metrics"

\* C5 (as claimed): every model a constructor returns is in evaluation mode.
C5_EveryModelInEvalMode ==
    Constructed => ~last.model.training

\* C5 (amended): the prepare_finetuned_* constructors return models in
\* evaluation mode; the create_new_* constructors return them in training mode.
C5_FinetunedInEvalMode ==
    /\ (last.op \in PrepareOps /\ Returned) => ~last.model.training
    /\ (last.op \in CreateOps /\ Returned) => last.model.training

\* C5 witness: a fine-tuned model was returned, in evaluation mode
C5_Witness ==
    last.op \in PrepareOps /\ Returned /\ ~last.model.training

ArchOfCall(call) ==
    CASE call.op = "prepare_finetuned_efficientnet_b0" -> "efficientnet_b0"
      [] call.op = "prepare_finetuned_efficientnet_b1" -> "efficientnet_b1"
      [] call.op = "prepare_finetuned_mobilenet_v3_large" -> "mobilenet_v3_large"
      [] call.op = "prepare_finetuned_shufflenet_v2_x2_0" -> "shufflenet_v2_x2_0"

\* the cause a failed prepare_finetuned_* call failed of is one the claim lists
ListedFailure(call) ==
    \/ ~call.file.exists
    \/ "model_state_dict" \notin call.file.keys
    \/ call.file.model_state_dict # [arch |-> ArchOfCall(call), num_classes |-> call.num_classes]
    \/ "best_val_f1" \notin call.file.keys

\* C6: a prepare_finetuned_* call that fails (file missing, model_state_dict
\* missing or mismatched, best_val_f1 missing) raises, returns no model and
\* leaves the registry as it was before the call.
C6_FailedLoadKeepsRegistry ==
    [][(last.op = "none" /\ last'.op \in PrepareOps) =>
          /\ ListedFailure(last') <=> last'.raised # "none"
          /\ last'.raised # "none" =>
                (model_weights' = model_weights /\ last'.model = NoModel)]_vars

\* C6 witness: a load failed at its last step (best_val_f1 missing, the state
\* dict loaded) for a name the registry already holds
C6_Witness ==
    /\ last.op \in PrepareOps /\ last.raised = "KeyError"
    /\ last.file.exists /\ "model_state_dict" \in last.file.keys
    /\ last.file.model_state_dict = [arch |-> ArchOfOp, num_classes |-> last.num_classes]
    /\ last.model_name \in DOMAIN model_weights

\* the three sequences are all non-empty and not all of one length
UnequalLengths ==
    /\ PlotCallWithKeys
    /\ N_val >= 1 /\ N_train >= 1 /\ N_f1 >= 1
    /\ ~(N_val = N_train /\ N_val = N_f1)

\* C7 (as claimed): with non-empty sequences of unequal lengths, each plotting
\* routine raises instead of saving an image.
C7_UnequalLengthsRaise ==
    UnequalLengths => (last.raised # "none" /\ last.plot.writes = <<>>)

\* C7 (amended): with non-empty sequences of unequal lengths, each plotting
\* routine returns and saves its one image; every line is drawn over the
\* epochs 1..len of its own sequence.
C7_UnequalLengthsStillPlot ==
    UnequalLengths =>
        /\ Returned
        /\ last.plot.writes = <<ExpectedImage>>
        /\ Len(last.plot.lines) = 3
        /\ \A i \in 1..3 : last.plot.lines[i].x = [e \in 1..Len(last.plot.lines[i].y) |-> e]
        /\ last.plot.lines[1].y = last.file.train_loss
        /\ last.plot.lines[2].y = last.file.val_loss
        /\ last.plot.lines[3].y = last.file.f1_metric_val

\* C7 witness: view_model.plot_training_metrics saved the image of a
\* checkpoint whose F1 sequence is longer than its training loss
C7_Witness ==
    /\ UnequalLengths /\ last.op = "view_model.plot_training_metrics"
    /\ N_f1 > N_train
    /\ Returned /\ last.plot.writes = <<ExpectedImage>>

\* a key of the three is missing from the checkpoint that was read
MissingPlotKey == last.op \in PlotOps /\ last.file.exists /\ ~(PlotKeys \subseteq last.file.keys)

\* C8 (as claimed): a missing key, or any one of the three sequences empty,
\* makes each plotting routine raise, and no image is written.
C8_MissingOrEmptyRaises ==
    (MissingPlotKey \/ (PlotCallWithKeys /\ (N_val = 0 \/ N_train = 0 \/ N_f1 = 0))) =>
        (last.raised # "none" /\ last.plot.writes = <<>>)

\* C8 (amended): a missing key, an empty f1_metric_val, or (in
\* view_model.plot_training_metrics only) an empty val_loss makes the routine
\* raise with no image written; an empty train_loss, and in
\* Models.plot_training_metrics an empty val_loss, raise nothing by
\* themselves: the image is written.
C8_RaisesOnMissingKeyOrEmptyF1 ==
    /\ MissingPlotKey => (last.raised = "KeyError" /\ last.plot.writes = <<>>)
    /\ (PlotCallWithKeys /\ N_f1 = 0) =>
            (last.raised = "ValueError" /\ last.plot.writes = <<>>)
    /\ (PlotCallWithKeys /\ N_val = 0 /\ last.op = "view_model.plot_training_metrics") =>
            (last.raised = "ValueError" /\ last.plot.writes = <<>>)
    /\ (PlotCallWithKeys /\ N_f1 >= 1
          /\ (N_val >= 1 \/ last.op = "Models.plot_training_metrics")) =>
            (Returned /\ last.plot.writes = <<ExpectedImage>>)

\* C8 witness: a checkpoint without train_loss made a routine raise KeyError
C8_Witness ==
    /\ MissingPlotKey /\ "train_loss" \notin last.file.keys
    /\ "val_loss" \in last.file.keys /\ N_val >= 1
    /\ last.raised = "KeyError" /\ last.plot.writes = <<>>

C10_DeviceChosenOnce ==
    /\ device = (IF cuda_available THEN "cuda" ELSE "cpu")
    /\ [][device' = device]_vars
    /\ [](Constructed => last.model.device = device)

\* C10 witness: a model was returned on the CPU chosen at construction, after
\* an accelerator had become available
C10_Witness ==
    /\ Constructed /\ cuda_available
    /\ device = "cpu" /\ last.model.device = "cpu"

====
